---------------------------- MODULE Spec2Model ----------------------------
(***************************************************************************)
(* Model of pkg/daemon/config.go of linuxptp-daemon: the ptp4l             *)
(* configuration parser (populatePtp4lConf), the SyncE relation extractor  *)
(* (extractSynceRelations) and the two renderers (renderPtp4lConf,         *)
(* renderSyncE4lConf).                                                     *)
(*                                                                         *)
(* A Go string is a sequence of one-character strings, so that trimming,   *)
(* splitting, slicing and formatting are computed the way the code         *)
(* computes them.  A Go map[string]string is a function whose domain is    *)
(* the set of its keys.                                                    *)
(***************************************************************************)
EXTENDS Integers, Sequences, FiniteSets, TLC

(***************************************************************************)
(* String literals of the source.                                          *)
(***************************************************************************)
S_global == <<"[", "g", "l", "o", "b", "a", "l", "]">>
S_nmea == <<"[", "n", "m", "e", "a", "]">>
K_masterOnly == <<"m", "a", "s", "t", "e", "r", "O", "n", "l", "y">>
K_serverOnly == <<"s", "e", "r", "v", "e", "r", "O", "n", "l", "y">>
K_slaveOnly == <<"s", "l", "a", "v", "e", "O", "n", "l", "y">>
K_clientOnly == <<"c", "l", "i", "e", "n", "t", "O", "n", "l", "y">>
K_network_option == <<"n", "e", "t", "w", "o", "r", "k", "_", "o", "p", "t", "i", "o", "n">>
K_extended_tlv == <<"e", "x", "t", "e", "n", "d", "e", "d", "_", "t", "l", "v">>
K_clock_id == <<"c", "l", "o", "c", "k", "_", "i", "d">>
K_ts2phc_master == <<"t", "s", "2", "p", "h", "c", ".", "m", "a", "s", "t", "e", "r">>
S_profileHeader == <<"#", "p", "r", "o", "f", "i", "l", "e", ":", " ">>

\* The white-space characters that have no escape in a string.
VerticalTab == ""
NextLine == ""
NoBreakSpace == " "
OghamSpaceMark == " "

(***************************************************************************)
(* Input lines the model draws configuration texts from.                   *)
(***************************************************************************)
L_blank == <<>>
L_comment == <<" ", "#", "c">>
L_global == <<"[", "g", "l", "o", "b", "a", "l", "]">>
L_e == <<"[", "e", "]">>
L_f == <<"\f", "[", "f", "]", NoBreakSpace>>
L_slaveOnly1 == <<"s", "l", "a", "v", "e", "O", "n", "l", "y", " ", "1">>
L_masterOnly1 == <<"m", "a", "s", "t", "e", "r", "O", "n", "l", "y", " ", "1">>
L_unclosed == <<"[", "e">>
L_devA == <<"[", "<", "a", ">", "]">>
L_devB == <<"[", "<", "b", ">", "]">>
L_devEmpty == <<"[", "<", ">", "]">>
L_ext == <<"[", "{", "x", "}", "]">>
L_clock_id == <<"c", "l", "o", "c", "k", "_", "i", "d", " ", "7">>
L_network_option_bad == <<"n", "e", "t", "w", "o", "r", "k", "_", "o", "p", "t", "i", "o", "n", " ", "a", "b", "c">>
L_network_option2 == <<"n", "e", "t", "w", "o", "r", "k", "_", "o", "p", "t", "i", "o", "n", " ", "2">>
L_extended_tlv_bad == <<"e", "x", "t", "e", "n", "d", "e", "d", "_", "t", "l", "v", " ", "a", "b", "c">>

\* Lines of the texts of Spec (parser and plain renderer).
ParseLineSet ==
    {L_blank, L_comment, L_global, L_e, L_f, L_slaveOnly1, L_masterOnly1, L_unclosed}

\* Lines of the texts of SpecSynce (extractor and SyncE renderer).
SynceLineSet ==
    {L_devA, L_devB, L_devEmpty, L_e, L_f, L_ext, L_clock_id,
     L_network_option_bad, L_network_option2, L_extended_tlv_bad}

\* Longest text, in lines, of Spec.
MaxLines == 4

\* Longest text, in lines, of SpecSynce.
MaxSynceLines == 4

\* conf.profile_name, set by the caller before rendering.
ProfileName == <<"p">>

(***************************************************************************)
(* Go library functions the code calls.                                    *)
(***************************************************************************)
\* unicode.IsSpace: up to U+00FF the characters '\t', '\n', '\v', '\f',
\* '\r', ' ', U+0085 (NEL) and U+00A0 (NBSP); above it the White_Space
\* table, U+1680, U+2000-U+200A, U+2028, U+2029, U+202F, U+205F and U+3000,
\* of which U+1680 is the one character a string of a module can hold.
IsSpace(c) ==
    c \in {" ", "\t", "\n", "\r", "\f", VerticalTab, NextLine, NoBreakSpace,
           OghamSpaceMark}

RECURSIVE TrimLeft(_)
TrimLeft(s) ==
    IF s = <<>> THEN s
    ELSE IF IsSpace(Head(s)) THEN TrimLeft(Tail(s)) ELSE s

RECURSIVE TrimRight(_)
TrimRight(s) ==
    IF s = <<>> THEN s
    ELSE IF IsSpace(s[Len(s)]) THEN TrimRight(SubSeq(s, 1, Len(s) - 1)) ELSE s

\* strings.TrimSpace
TrimSpace(s) == TrimRight(TrimLeft(s))

\* strings.HasPrefix
HasPrefix(s, p) == Len(s) >= Len(p) /\ SubSeq(s, 1, Len(p)) = p

\* strings.IndexByte: the 0-based index of the first c in s, -1 if there is none.
IndexByte(s, c) ==
    IF \E i \in 1..Len(s) : s[i] = c
    THEN (CHOOSE i \in 1..Len(s) : s[i] = c /\ \A j \in 1..(i - 1) : s[j] # c) - 1
    ELSE -1

\* Go slices s[:n] and s[n:] with a 0-based n.
SliceTo(s, n) == SubSeq(s, 1, n)
SliceFrom(s, n) == SubSeq(s, n + 1, Len(s))

\* strings.Split with a one-character separator.
RECURSIVE Split(_, _)
Split(s, c) ==
    LET i == IndexByte(s, c)
    IN  IF i < 0 THEN <<s>>
        ELSE <<SliceTo(s, i)>> \o Split(SliceFrom(s, i + 1), c)

\* The inverse used to build input texts: lines joined by "\n".
RECURSIVE Join(_)
Join(lines) ==
    IF lines = <<>> THEN <<>>
    ELSE IF Len(lines) = 1 THEN lines[1]
    ELSE lines[1] \o <<"\n">> \o Join(Tail(lines))

\* strings.ReplaceAll(s, c, "") for each one-character c of chars, and
\* regexp ReplaceAllString(s, "") of a character class with +.
RemoveChars(s, chars) == SelectSeq(s, LAMBDA c : c \notin chars)

DigitChars == <<"0", "1", "2", "3", "4", "5", "6", "7", "8", "9">>
IsDigit(c) == \E i \in 1..10 : DigitChars[i] = c
DigitVal(c) == (CHOOSE i \in 1..10 : DigitChars[i] = c) - 1

\* The bounds of Go's int and uint64 on the 64-bit platforms the daemon is
\* built for.
MaxInt64 == 2^63 - 1
MinInt64 == 0 - 2^63
MaxUint64 == 2^64 - 1

\* The fast path of strconv.Atoi over the digits after the sign: the first
\* character that is no digit ends it with a syntax error and the value 0.
RECURSIVE AtoiFast(_, _)
AtoiFast(s, n) ==
    IF s = <<>> THEN [val |-> n, err |-> ""]
    ELSE IF ~IsDigit(Head(s)) THEN [val |-> 0, err |-> "syntax"]
    ELSE AtoiFast(Tail(s), n * 10 + DigitVal(Head(s)))

\* The loop of strconv.ParseUint(s, 10, 64), left to right: a character
\* that is no digit ends it with a syntax error and 0; digits that leave
\* the range of uint64 end it at once with a range error and MaxUint64,
\* whatever follows them.
RECURSIVE ParseUintLoop(_, _)
ParseUintLoop(s, n) ==
    IF s = <<>> THEN [val |-> n, err |-> ""]
    ELSE IF ~IsDigit(Head(s)) THEN [val |-> 0, err |-> "syntax"]
    ELSE IF n >= (MaxUint64 \div 10) + 1 THEN [val |-> MaxUint64, err |-> "range"]
    ELSE IF n * 10 + DigitVal(Head(s)) > MaxUint64
         THEN [val |-> MaxUint64, err |-> "range"]
    ELSE ParseUintLoop(Tail(s), n * 10 + DigitVal(Head(s)))

\* strconv.ParseUint(s, 10, 64)
ParseUint(s) ==
    IF s = <<>> THEN [val |-> 0, err |-> "syntax"] ELSE ParseUintLoop(s, 0)

\* strconv.ParseInt(s, 10, 0): the sign is taken off, the rest goes to
\* ParseUint; a syntax error gives 0, a magnitude outside int the nearest
\* bound of int with a range error.
ParseInt(s) ==
    LET signed == s # <<>> /\ Head(s) \in {"+", "-"}
        neg == signed /\ Head(s) = "-"
        un == ParseUint(IF signed THEN Tail(s) ELSE s)
    IN  IF s = <<>> \/ un.err = "syntax" THEN [val |-> 0, err |-> "syntax"]
        ELSE IF ~neg /\ un.val >= MaxInt64 + 1 THEN [val |-> MaxInt64, err |-> "range"]
        ELSE IF neg /\ un.val > MaxInt64 + 1 THEN [val |-> MinInt64, err |-> "range"]
        ELSE [val |-> IF neg THEN 0 - un.val ELSE un.val, err |-> ""]

\* strconv.Atoi: strings of 1 to 18 characters take the fast path, which
\* cannot leave the range of int; all others go through ParseInt.
Atoi(s) ==
    IF 0 < Len(s) /\ Len(s) < 19
    THEN LET signed == Head(s) \in {"+", "-"}
             digits == IF signed THEN Tail(s) ELSE s
             r == AtoiFast(digits, 0)
         IN  IF digits = <<>> THEN [val |-> 0, err |-> "syntax"]
             ELSE IF r.err = "" /\ Head(s) = "-" THEN [val |-> 0 - r.val, err |-> ""]
             ELSE r
    ELSE ParseInt(s)

\* strconv.ParseBool: the value returned with an error is false.
ParseBool(s) ==
    LET trues == {<<"1">>, <<"t">>, <<"T">>, <<"T", "R", "U", "E">>,
                  <<"t", "r", "u", "e">>, <<"T", "r", "u", "e">>}
        falses == {<<"0">>, <<"f">>, <<"F">>, <<"F", "A", "L", "S", "E">>,
                   <<"f", "a", "l", "s", "e">>, <<"F", "a", "l", "s", "e">>}
    IN  [val |-> s \in trues, err |-> s \notin (trues \cup falses)]

\* A map[string]string with no key.
EmptyOptions == [k \in {} |-> <<>>]

\* m[k] = v on a map.
SetOption(m, k, v) == (k :> v) @@ m

\* _, ok := m[k]
HasOption(m, k) == k \in DOMAIN m

(***************************************************************************)
(* populatePtp4lConf                                                       *)
(***************************************************************************)
\* event.GM, event.BC, event.OC
GM == "GM"
BC == "BC"
OC == "OC"

\* The error values populatePtp4lConf returns ("" is nil).
ErrMissingClosing == "Section missing closing ']'"
ErrNotInSection == "Config option not in section"

\* The locals of populatePtp4lConf before its loop.
ScanInit ==
    [sections |-> <<>>,
     currentSectionName |-> <<>>,
     currentSection |-> [sectionName |-> <<>>, options |-> EmptyOptions],
     globalIsDefined |-> FALSE,
     hasSlaveConfigDefined |-> FALSE,
     err |-> ""]

\* An option line's value as the parser stores and compares it.
OptionValue(line, split) == SliceFrom(line, split)

\* The four slave-indicating comparisons of the parser.
IsSlaveConfig(key, value) ==
    \/ key = K_masterOnly /\ value = <<"0">>
    \/ key = K_serverOnly /\ value = <<"0">>
    \/ key = K_slaveOnly /\ value = <<"1">>
    \/ key = K_clientOnly /\ value = <<"1">>

\* One iteration of the loop over the lines of the text.
ScanLine(st, rawLine) ==
    LET line == TrimSpace(rawLine)
    IN  IF HasPrefix(line, <<"#">>) THEN st
        ELSE IF HasPrefix(line, <<"[">>) THEN
            LET flushed == IF st.currentSectionName # <<>>
                           THEN Append(st.sections, st.currentSection)
                           ELSE st.sections
                currentLine == Split(line, "]")
                name == currentLine[1] \o <<"]">>
            IN  IF Len(currentLine) < 2
                THEN [st EXCEPT !.sections = flushed, !.err = ErrMissingClosing]
                ELSE [st EXCEPT !.sections = flushed,
                                !.currentSectionName = name,
                                !.globalIsDefined = @ \/ name = S_global,
                                !.currentSection =
                                    [sectionName |-> name, options |-> EmptyOptions]]
        ELSE IF st.currentSectionName # <<>> THEN
            LET split == IndexByte(line, " ")
                key == SliceTo(line, split)
                value == OptionValue(line, split)
            IN  IF split > 0
                THEN [st EXCEPT !.currentSection.options = SetOption(@, key, value),
                                !.hasSlaveConfigDefined = @ \/ IsSlaveConfig(key, value)]
                ELSE st
        ELSE [st EXCEPT !.err = ErrNotInSection]

\* The loop: it stops at the first line that returns an error.
RECURSIVE ScanLines(_, _)
ScanLines(st, lines) ==
    IF lines = <<>> \/ st.err # "" THEN st
    ELSE ScanLines(ScanLine(st, Head(lines)), Tail(lines))

\* The flush of the last open section after the loop.
FlushLast(st) ==
    IF st.currentSectionName # <<>>
    THEN Append(st.sections, st.currentSection)
    ELSE st.sections

\* A parser that appends an empty [global] section whatever it has seen.
GlobalMissingAlways(st) == TRUE

\* Whether an empty [global] section is appended.
GlobalMissing(st) == ~st.globalIsDefined

\* The clock type from the slave flag and the number of sections.
ClockType(hasSlaveConfigDefined, sections) ==
    IF ~hasSlaveConfigDefined THEN GM
    ELSE IF Len(sections) > 2 THEN BC
    ELSE OC

\* populatePtp4lConf(config): config is [isNil, s]; the result holds the
\* sections and clock type left in the receiver, and the error returned.
\* On an error the sections appended so far stay and the clock type is not set.
populatePtp4lConf(config) ==
    LET st == IF config.isNil THEN ScanInit
              ELSE ScanLines(ScanInit, Split(config.s, "\n"))
        flushed == IF config.isNil THEN st.sections ELSE FlushLast(st)
        sections == IF GlobalMissing(st)
                    THEN Append(flushed, [sectionName |-> S_global, options |-> EmptyOptions])
                    ELSE flushed
    IN  IF st.err # ""
        THEN [sections |-> st.sections, clock_type |-> "", err |-> st.err]
        ELSE [sections |-> sections,
              clock_type |-> ClockType(st.hasSlaveConfigDefined, sections),
              err |-> ""]

(***************************************************************************)
(* getSource                                                               *)
(***************************************************************************)
\* event.GNSS, event.PPS; NoSource is the zero value of event.EventSource.
GNSS == "GNSS"
PPS == "PPS"
NoSource == ""

getSource(isTs2phcMaster) ==
    LET b == ParseBool(TrimSpace(isTs2phcMaster))
    IN  IF ~b.err /\ b.val THEN GNSS ELSE PPS

(***************************************************************************)
(* extractSynceRelations                                                   *)
(***************************************************************************)
\* synce.SYNCE_NETWORK_OPT_1 and synce.ExtendedTLV_DISABLED
SYNCE_NETWORK_OPT_1 == 1
ExtendedTLV_DISABLED == 0

\* The characters the regular expression [{}<>\[\] ]+ removes.
DelimiterChars == {"{", "}", "<", ">", "[", "]", " "}

StripDelimiters(name) == RemoveChars(name, DelimiterChars)

\* synce.Config{}: the zero value.  LastQLState and LastClockState are
\* runtime state of package synce that this file only initialises.
ZeroSynceConfig ==
    [Name |-> <<>>, Ifaces |-> <<>>, ClockId |-> <<>>, NetworkOption |-> 0,
     ExtendedTlv |-> 0, ExternalSource |-> <<>>]

\* The synce.Config literal a device section starts.
NewSynceConfig ==
    [Name |-> <<>>, Ifaces |-> <<>>, ClockId |-> <<>>,
     NetworkOption |-> SYNCE_NETWORK_OPT_1,
     ExtendedTlv |-> ExtendedTLV_DISABLED, ExternalSource |-> <<>>]

\* networkOption / extendedTlv after the optional strconv.Atoi: the variable
\* is assigned Atoi's result whether or not it returned an error.
IntOption(options, key, default) ==
    IF HasOption(options, key) THEN Atoi(TrimSpace(options[key])).val ELSE default

\* Relations.AddDeviceConfig: the device is appended to Devices.
AddDeviceConfig(devices, device) == Append(devices, device)

\* The locals of extractSynceRelations before its loop.
ExtractInit ==
    [Devices |-> <<>>, ifaces |-> <<>>, synceRelationInfo |-> ZeroSynceConfig]

\* One iteration of the loop over conf.sections.
ExtractSection(st, section) ==
    IF HasPrefix(section.sectionName, <<"[", "<">>) THEN
        LET closed == IF Len(st.ifaces) > 0
                      THEN [st.synceRelationInfo EXCEPT !.Ifaces = st.ifaces]
                      ELSE st.synceRelationInfo
            devices == IF st.synceRelationInfo.Name # <<>>
                       THEN AddDeviceConfig(st.Devices, closed)
                       ELSE st.Devices
            info == [NewSynceConfig EXCEPT
                        !.Name = StripDelimiters(section.sectionName),
                        !.NetworkOption = IntOption(section.options, K_network_option,
                                                    SYNCE_NETWORK_OPT_1),
                        !.ExtendedTlv = IntOption(section.options, K_extended_tlv,
                                                  ExtendedTLV_DISABLED)]
        IN  [Devices |-> devices,
             ifaces |-> st.ifaces,      \* ifaces is not assigned in this branch
             synceRelationInfo |-> info]
    ELSE IF HasPrefix(section.sectionName, <<"[", "{">>) THEN
        [st EXCEPT !.synceRelationInfo.ExternalSource =
                        StripDelimiters(section.sectionName)]
    ELSE IF HasPrefix(section.sectionName, <<"[">>) /\ section.sectionName # S_global THEN
        [st EXCEPT !.ifaces = Append(@, StripDelimiters(section.sectionName))]
    ELSE st

RECURSIVE ExtractSections(_, _)
ExtractSections(st, sections) ==
    IF sections = <<>> THEN st
    ELSE ExtractSections(ExtractSection(st, Head(sections)), Tail(sections))

\* extractSynceRelations: the Devices of the Relations it returns.
extractSynceRelations(sections) ==
    LET st == ExtractSections(ExtractInit, sections)
        last == IF Len(st.ifaces) > 0
                THEN [st.synceRelationInfo EXCEPT !.Ifaces = st.ifaces]
                ELSE st.synceRelationInfo
    IN  IF last.Name # <<>> THEN AddDeviceConfig(st.Devices, last) ELSE st.Devices

(***************************************************************************)
(* renderSyncE4lConf                                                       *)
(***************************************************************************)
\* The settings mappings handed to renderSyncE4lConf: the identifier
\* assigned to the device of each name.
SettingsSet ==
    {(<<"a">> :> <<"1">>) @@ (<<"b">> :> <<"2">>),
     (<<"a">> :> <<"3">>) @@ (<<"b">> :> <<"4">>)}

\* Relations.AddClockIds(ptpSettings): every device is assigned its
\* identifier from the settings mapping ("" when the mapping has none).
AddClockIds(devices, ptpSettings) ==
    [i \in 1..Len(devices) |->
        [devices[i] EXCEPT !.ClockId =
            IF devices[i].Name \in DOMAIN ptpSettings
            THEN ptpSettings[devices[i].Name] ELSE <<>>]]

\* All orders in which a range over a map with these keys may visit them.
Orderings(keys) ==
    {f \in [1..Cardinality(keys) -> keys] :
        \A i, j \in 1..Cardinality(keys) : i # j => f[i] # f[j]}

\* The "\n%s %s" lines of one section's options, visited in this order.
RECURSIVE OptionLines(_, _)
OptionLines(options, order) ==
    IF order = <<>> THEN <<>>
    ELSE <<"\n">> \o Head(order) \o <<" ">> \o options[Head(order)]
         \o OptionLines(options, Tail(order))

\* What the loop body appends to configOut for one section.
SectionRenderings(section) ==
    {<<"\n">> \o section.sectionName \o OptionLines(section.options, order) :
        order \in Orderings(DOMAIN section.options)}

\* Every configOut the loop over sections can build after prefix.
RECURSIVE Renderings(_, _)
Renderings(prefix, sections) ==
    IF sections = <<>> THEN {prefix}
    ELSE UNION {Renderings(prefix \o t, Tail(sections)) :
                    t \in SectionRenderings(Head(sections))}

\* fmt.Sprintf("#profile: %s\n", conf.profile_name)
ProfileHeader(profile_name) == S_profileHeader \o profile_name \o <<"\n">>

\* The locals of renderSyncE4lConf before its loop; sections collects the
\* sections visited, whose option maps are the Document's own.
SyncEInit == [sections |-> <<>>, deviceIdx |-> 0, panicked |-> FALSE]

\* One iteration: relations.Devices[deviceIdx] panics when deviceIdx is not
\* an index of Devices.
SyncESection(st, section, devices) ==
    IF /\ HasPrefix(section.sectionName, <<"[", "<">>)
       /\ ~HasOption(section.options, K_clock_id)
    THEN IF st.deviceIdx >= Len(devices)
         THEN [st EXCEPT !.panicked = TRUE]
         ELSE [st EXCEPT
                 !.sections = Append(@,
                     [section EXCEPT !.options =
                         SetOption(@, K_clock_id, devices[st.deviceIdx + 1].ClockId)]),
                 !.deviceIdx = @ + 1]
    ELSE [st EXCEPT !.sections = Append(@, section)]

\* The loop; after a panic the sections not yet visited are as they were.
RECURSIVE SyncESections(_, _, _)
SyncESections(st, sections, devices) ==
    IF sections = <<>> THEN st
    ELSE LET next == SyncESection(st, Head(sections), devices)
         IN  IF next.panicked
             THEN [next EXCEPT !.sections = @ \o sections]
             ELSE SyncESections(next, Tail(sections), devices)

(***************************************************************************)
(* renderPtp4lConf                                                         *)
(***************************************************************************)
\* The config.Iface the loop builds for a section.
BuildIface(section, nmea_source) ==
    [Name |-> RemoveChars(section.sectionName, {"[", "]"}),
     Source |-> IF HasOption(section.options, K_ts2phc_master)
                THEN getSource(section.options[K_ts2phc_master])
                ELSE nmea_source,
     PhcId |-> <<>>,
     IsMaster |-> IF HasOption(section.options, K_masterOnly)
                  THEN ParseBool(TrimSpace(section.options[K_masterOnly])).val
                  ELSE FALSE]

\* The config.Iface literal appended to ifaces: Name, Source and PhcId are
\* copied, IsMaster keeps its zero value.
AppendedIface(iface) ==
    [Name |-> iface.Name, Source |-> iface.Source, PhcId |-> iface.PhcId,
     IsMaster |-> FALSE]

PtpInit == [nmea_source |-> NoSource, mapping |-> <<>>, ifaces |-> <<>>]

\* One iteration of the loop of renderPtp4lConf, without the text.
PtpSection(st, section) ==
    LET nmea == IF section.sectionName = S_nmea
                   /\ HasOption(section.options, K_ts2phc_master)
                THEN getSource(section.options[K_ts2phc_master])
                ELSE st.nmea_source
        iface == BuildIface(section, nmea)
    IN  IF section.sectionName # S_global /\ section.sectionName # S_nmea
        THEN [nmea_source |-> nmea,
              mapping |-> Append(st.mapping, iface.Name),
              ifaces |-> Append(st.ifaces, AppendedIface(iface))]
        ELSE [st EXCEPT !.nmea_source = nmea]

RECURSIVE PtpSections(_, _)
PtpSections(st, sections) ==
    IF sections = <<>> THEN st
    ELSE PtpSections(PtpSection(st, Head(sections)), Tail(sections))

(***************************************************************************)
(* State                                                                   *)
(***************************************************************************)
VARIABLES
    config,      \* the text handed to populatePtp4lConf: [isNil, s]
    conf,        \* the ptp4lConf: [sections, mapping, profile_name, clock_type]
    err,         \* the error populatePtp4lConf returned ("" is nil)
    pc,          \* "start", "parsed", "failed" (parse error) or "panicked"
    lastOp,      \* the last operation called
    relations,   \* Devices of the Relations last returned
    configOut,   \* the text last returned by a renderer
    ifaces,      \* the config.IFaces last returned by renderPtp4lConf
    reparsed     \* populatePtp4lConf of configOut: [sections, clock_type, err]

vars == <<config, conf, err, pc, lastOp, relations, configOut, ifaces, reparsed>>

\* All sequences over S of length 0..n.
SeqsUpTo(S, n) == UNION {[1..k -> S] : k \in 0..n}

Texts(lineSet, n) == {[isNil |-> FALSE, s |-> Join(ls)] : ls \in SeqsUpTo(lineSet, n)}

NilConfig == [isNil |-> TRUE, s |-> <<>>]

NotReparsed == [sections |-> <<>>, clock_type |-> "", err |-> "none"]

InitWith(inputs) ==
    /\ config \in inputs
    /\ conf = [sections |-> <<>>, mapping |-> <<>>,
               profile_name |-> ProfileName, clock_type |-> ""]
    /\ err = ""
    /\ pc = "start"
    /\ lastOp = "none"
    /\ relations = <<>>
    /\ configOut = <<>>
    /\ ifaces = <<>>
    /\ reparsed = NotReparsed

Init == InitWith({NilConfig} \cup Texts(ParseLineSet, MaxLines))

InitSynce == InitWith(Texts(SynceLineSet, MaxSynceLines))

\* output.populatePtp4lConf(config)
Parse ==
    /\ pc = "start"
    /\ LET r == populatePtp4lConf(config)
       IN  /\ conf' = [conf EXCEPT !.sections = r.sections,
                                   !.clock_type = r.clock_type]
           /\ err' = r.err
           /\ pc' = IF r.err = "" THEN "parsed" ELSE "failed"
    /\ lastOp' = "populatePtp4lConf"
    /\ UNCHANGED <<config, relations, configOut, ifaces, reparsed>>

\* conf.extractSynceRelations()
ExtractRelations ==
    /\ pc = "parsed"
    /\ relations' = extractSynceRelations(conf.sections)
    /\ lastOp' = "extractSynceRelations"
    /\ UNCHANGED <<config, conf, err, pc, configOut, ifaces, reparsed>>

\* conf.renderPtp4lConf()
RenderPtp4l ==
    /\ pc = "parsed"
    /\ LET st == PtpSections(PtpInit, conf.sections)
       IN  /\ conf' = [conf EXCEPT !.mapping = st.mapping]
           /\ ifaces' = st.ifaces
    /\ configOut' \in Renderings(ProfileHeader(conf.profile_name), conf.sections)
    /\ lastOp' = "renderPtp4lConf"
    /\ UNCHANGED <<config, err, pc, relations, reparsed>>

\* conf.renderSyncE4lConf(ptpSettings).  A panic ends the process; the
\* option maps written before it stay written.
RenderSyncE ==
    /\ pc = "parsed"
    /\ \E ptpSettings \in SettingsSet :
         LET devices == AddClockIds(extractSynceRelations(conf.sections), ptpSettings)
             st == SyncESections(SyncEInit, conf.sections, devices)
         IN  /\ conf' = [conf EXCEPT !.sections = st.sections]
             /\ IF st.panicked
                THEN /\ pc' = "panicked"
                     /\ UNCHANGED <<relations, configOut>>
                ELSE /\ pc' = pc
                     /\ relations' = devices
                     /\ configOut' \in
                            Renderings(ProfileHeader(conf.profile_name), st.sections)
    /\ lastOp' = "renderSyncE4lConf"
    /\ UNCHANGED <<config, err, ifaces, reparsed>>

\* populatePtp4lConf on the text renderPtp4lConf has just returned.
ParseRendered ==
    /\ pc = "parsed"
    /\ lastOp = "renderPtp4lConf"
    /\ reparsed' = populatePtp4lConf([isNil |-> FALSE, s |-> configOut])
    /\ lastOp' = "reparse"
    /\ UNCHANGED <<config, conf, err, pc, relations, configOut, ifaces>>

Next ==
    \/ Parse
    \/ ExtractRelations
    \/ RenderPtp4l
    \/ RenderSyncE
    \/ ParseRendered

Spec == Init /\ [][Next]_vars

SpecSynce == InitSynce /\ [][Next]_vars

(***************************************************************************)
(* Vocabulary of the properties, read off the text and the Document        *)
(* without the parser's or the extractor's own bookkeeping.                *)
(***************************************************************************)
\* The lines of the input text.
InputLines == IF config.isNil THEN <<>> ELSE Split(config.s, "\n")

IsDeviceMarker(section) == HasPrefix(section.sectionName, <<"[", "<">>)

IsExternalMarker(section) == HasPrefix(section.sectionName, <<"[", "{">>)

\* A plain section other than [global]: an interface section for the extractor.
IsPlainSection(section) ==
    /\ HasPrefix(section.sectionName, <<"[">>)
    /\ ~IsDeviceMarker(section)
    /\ ~IsExternalMarker(section)
    /\ section.sectionName # S_global

\* The indices of the sections that satisfy Test, in document order.
IndicesWhere(sections, Test(_)) ==
    SelectSeq([i \in 1..Len(sections) |-> i], LAMBDA i : Test(sections[i]))

\* The interface names between the k-th device marker and the next one.
IfacesAfterMarker(sections, k) ==
    LET markers == IndicesWhere(sections, IsDeviceMarker)
        from == markers[k]
        to == IF k < Len(markers) THEN markers[k + 1] ELSE Len(sections) + 1
        plain == SelectSeq(IndicesWhere(sections, IsPlainSection),
                           LAMBDA i : from < i /\ i < to)
    IN  [j \in 1..Len(plain) |-> StripDelimiters(sections[plain[j]].sectionName)]

\* The four slave-indicating option lines.
SlaveForms ==
    {K_masterOnly \o <<" ", "0">>, K_serverOnly \o <<" ", "0">>,
     K_slaveOnly \o <<" ", "1">>, K_clientOnly \o <<" ", "1">>}

HasSlaveLine == \E i \in 1..Len(InputLines) : TrimSpace(InputLines[i]) \in SlaveForms

\* No line of the text is a section header: every line is blank or a comment.
NoSectionHeader ==
    \A i \in 1..Len(InputLines) :
        \/ TrimSpace(InputLines[i]) = <<>>
        \/ HasPrefix(TrimSpace(InputLines[i]), <<"#">>)

\* The number of [global] headers of the text.
GlobalHeaders ==
    Cardinality({i \in 1..Len(InputLines) : HasPrefix(TrimSpace(InputLines[i]), S_global)})

\* The number of sections of the Document named [global].
NumGlobal == Cardinality({i \in 1..Len(conf.sections) : conf.sections[i].sectionName = S_global})

SectionNames(sections) == {sections[i].sectionName : i \in 1..Len(sections)}

\* The key/value pairs of the sections of this name.
PairsOf(sections, name) ==
    UNION {{<<k, sections[i].options[k]>> : k \in DOMAIN sections[i].options} :
              i \in {j \in 1..Len(sections) : sections[j].sectionName = name}}

\* A successful parse has returned (and the process has not crashed since).
Parsed == pc = "parsed"

(***************************************************************************)
(* C1: extractSynceRelations returns one device per device-marker section, *)
(* in order, and each device's interfaces are exactly the plain            *)
(* non-[global] sections between its marker and the next marker (or the    *)
(* end), in order.  (Stated for the Documents whose device markers all     *)
(* carry a name.)                                                          *)
(***************************************************************************)
C1_DevicesGroupTheirInterfaces ==
    (/\ Parsed
     /\ lastOp = "extractSynceRelations"
     /\ \A i \in 1..Len(conf.sections) :
           IsDeviceMarker(conf.sections[i])
               => StripDelimiters(conf.sections[i].sectionName) # <<>>) =>
        LET markers == IndicesWhere(conf.sections, IsDeviceMarker)
        IN  /\ Len(relations) = Len(markers)
            /\ \A k \in 1..Len(markers) :
                 /\ relations[k].Name = StripDelimiters(conf.sections[markers[k]].sectionName)
                 /\ relations[k].Ifaces = IfacesAfterMarker(conf.sections, k)

(***************************************************************************)
(* C2: the clock role is GrandMaster iff no option line is one of the four *)
(* slave-indicating forms; otherwise it is BoundaryClock when the Document *)
(* has more than two sections and OrdinaryClock when it has not.           *)
(***************************************************************************)
C2_RoleFromSlaveLines ==
    Parsed =>
        conf.clock_type = IF ~HasSlaveLine THEN GM
                          ELSE IF Len(conf.sections) > 2 THEN BC ELSE OC

(***************************************************************************)
(* C3: parsing the text renderPtp4lConf returns for a parsed Document      *)
(* succeeds and gives the same section names and, per section name, the    *)
(* same key/value pairs, character for character.                          *)
(***************************************************************************)
C3_RoundTrip ==
    lastOp = "reparse" =>
        /\ reparsed.err = ""
        /\ SectionNames(reparsed.sections) = SectionNames(conf.sections)
        /\ \A name \in SectionNames(conf.sections) :
             PairsOf(reparsed.sections, name) = PairsOf(conf.sections, name)

(***************************************************************************)
(* C4: a text with no section header (absent, empty, or only blank and     *)
(* comment lines) parses without error to exactly one empty [global]       *)
(* section with clock role GrandMaster.                                    *)
(***************************************************************************)
C4_NoHeaderGivesEmptyGlobal ==
    (pc # "start" /\ NoSectionHeader) =>
        /\ err = ""
        /\ conf.sections = <<[sectionName |-> S_global, options |-> EmptyOptions]>>
        /\ conf.clock_type = GM

(***************************************************************************)
(* C5: a device whose marker section carries an unparseable network_option *)
(* keeps networkOption = 1, and one with an unparseable extended_tlv keeps *)
(* extendedTlv = disabled.  (The devices are the markers whose stripped    *)
(* name is not empty, in order.)                                           *)
(***************************************************************************)
C5_UnparseableKeepsDefault ==
    (Parsed /\ lastOp = "extractSynceRelations") =>
        LET named == SelectSeq(conf.sections,
                        LAMBDA sec : IsDeviceMarker(sec)
                                     /\ StripDelimiters(sec.sectionName) # <<>>)
        IN  \A k \in 1..Len(named) :
              k <= Len(relations) =>
                /\ (/\ HasOption(named[k].options, K_network_option)
                    /\ Atoi(TrimSpace(named[k].options[K_network_option])).err # "")
                      => relations[k].NetworkOption = SYNCE_NETWORK_OPT_1
                /\ (/\ HasOption(named[k].options, K_extended_tlv)
                    /\ Atoi(TrimSpace(named[k].options[K_extended_tlv])).err # "")
                      => relations[k].ExtendedTlv = ExtendedTLV_DISABLED

(***************************************************************************)
(* C6 as stated: after every successful parse the Document has exactly one *)
(* section named [global], also when the text has several [global]         *)
(* headers.                                                                *)
(***************************************************************************)
C6_ExactlyOneGlobal == (pc # "start" /\ err = "") => NumGlobal = 1

(***************************************************************************)
(* C6 amended: after every successful parse the Document has at least one  *)
(* section named [global]: exactly one when the text has at most one       *)
(* [global] header (synthesized empty when it has none), and one per       *)
(* [global] header when it has several.                                    *)
(***************************************************************************)
C6_GlobalPerHeader ==
    (pc # "start" /\ err = "") =>
        NumGlobal = IF GlobalHeaders = 0 THEN 1 ELSE GlobalHeaders

\* A text with interface sections and no [global] header has been parsed:
\* the [global] section is the synthesized one.
C6_Witness ==
    /\ Parsed
    /\ GlobalHeaders = 0
    /\ Len(conf.sections) = 3
    /\ NumGlobal = 1
    /\ conf.sections[3] = [sectionName |-> S_global, options |-> EmptyOptions]

(***************************************************************************)
(* C7: the clock_id renderSyncE4lConf injects into the k-th device-marker  *)
(* section of the Document is the identifier of the k-th device of         *)
(* Relations, also when an earlier marker section has its own clock_id.    *)
(* (A section is injected when it has no clock_id before the call and has  *)
(* one after it.)                                                          *)
(***************************************************************************)
C7_ClockIdOfSameDevice ==
    [][(lastOp' = "renderSyncE4lConf" /\ pc' = "parsed") =>
          LET markers == IndicesWhere(conf.sections, IsDeviceMarker)
          IN  \A k \in 1..Len(markers) :
                (/\ ~HasOption(conf.sections[markers[k]].options, K_clock_id)
                 /\ HasOption(conf'.sections[markers[k]].options, K_clock_id)
                 /\ k <= Len(relations'))
                  => conf'.sections[markers[k]].options[K_clock_id]
                        = relations'[k].ClockId]_vars

(***************************************************************************)
(* C8: renderSyncE4lConf never reads a device beyond the end of Relations: *)
(* a disagreement between the devices and the marker sections is reported  *)
(* to the caller and never crashes.                                        *)
(***************************************************************************)
C8_NoReadBeyondRelations == pc # "panicked"

(***************************************************************************)
(* C9: extractSynceRelations, renderPtp4lConf and renderSyncE4lConf leave  *)
(* the sections of the Document and their options as they were.            *)
(***************************************************************************)
C9_DocumentUnchanged ==
    [][lastOp' \in {"extractSynceRelations", "renderPtp4lConf", "renderSyncE4lConf"}
          => conf'.sections = conf.sections]_vars

(***************************************************************************)
(* C10: renderPtp4lConf returns one Iface per section other than [global]  *)
(* and [nmea], in document order, whose master flag is true exactly when   *)
(* the section's masterOnly option parses as boolean true.                 *)
(***************************************************************************)
C10_MasterOnlyCaptured ==
    lastOp = "renderPtp4lConf" =>
        LET secs == SelectSeq(conf.sections,
                        LAMBDA sec : sec.sectionName # S_global
                                     /\ sec.sectionName # S_nmea)
        IN  /\ Len(ifaces) = Len(secs)
            /\ \A i \in 1..Len(secs) :
                 /\ ifaces[i].Name = RemoveChars(secs[i].sectionName, {"[", "]"})
                 /\ ifaces[i].IsMaster =
                      (/\ HasOption(secs[i].options, K_masterOnly)
                       /\ ParseBool(TrimSpace(secs[i].options[K_masterOnly])).val)

=============================================================================
